---- MODULE Spec2Model ----
(***************************************************************************)
(* Byte accumulation and adaptive decompression of src/c_bindings.c:       *)
(* krowno_deflate, krowno_inflate, krowno_execute_command and              *)
(* krowno_curl_write_callback (with krowno_http_get around it).            *)
(*                                                                         *)
(* A byte string is kept run-length encoded: a sequence of runs <<b, n>>   *)
(* (n >= 1 copies of byte b), adjacent runs holding different bytes, so    *)
(* that buffers of tens of thousands of bytes stay small values.  Sizes    *)
(* are size_t in the source; every size reached here is below 2^21, far    *)
(* from the width, so no wrap-around is modelled.                          *)
(***************************************************************************)
EXTENDS Integers, Sequences, FiniteSets, TLC

VARIABLES
    fn,        \* the function being called
    pc,        \* position inside the call
    arg,       \* the call's arguments (pointers as "non-null" flags)
    z,         \* locals of krowno_inflate / krowno_deflate
    acc,       \* the accumulator: result/result_size/result_capacity, or response->data/size
    heap,      \* every buffer allocated so far: state, allocated size, bytes written
    ret,       \* the returned value and what was stored through the output pointers
    hist       \* history: capacities tried, outcomes, chunks fed, last append, cause

vars == <<fn, pc, arg, z, acc, heap, ret, hist>>

\* ------------------------------------------------------------ byte strings

Max(a, b) == IF a >= b THEN a ELSE b

Rep(b, n) == IF n = 0 THEN <<>> ELSE << <<b, n>> >>

\* the number of bytes of runs lo..hi of s (halving keeps the recursion shallow)
RECURSIVE RunSum(_, _, _)
RunSum(s, lo, hi) ==
    IF lo > hi THEN 0
    ELSE IF lo = hi THEN s[lo][2]
    ELSE LET m == (lo + hi) \div 2 IN RunSum(s, lo, m) + RunSum(s, m + 1, hi)

BLen(s) == RunSum(s, 1, Len(s))

\* concatenation, merging the two runs that meet when they hold the same byte
Cat(a, b) ==
    IF a = <<>> THEN b
    ELSE IF b = <<>> THEN a
    ELSE IF a[Len(a)][1] = b[1][1]
         THEN SubSeq(a, 1, Len(a) - 1)
              \o << <<b[1][1], a[Len(a)][2] + b[1][2]>> >>
              \o Tail(b)
         ELSE a \o b

\* ------------------------------------------------------------ zlib
\* compressBound, compress2 and uncompress are library calls (lines 363, 367, 393).
\* They are modelled by what the callers depend on: the result code, the length of
\* the stream produced, and the bytes and length uncompress delivers when the
\* destination is large enough.  Runs of equal bytes shrink to match tokens, level 0
\* stores the bytes, and a stream with a damaged header or trailer is a data error.

Z_OK == 0
Z_STREAM_ERROR == -2
Z_DATA_ERROR == -3
Z_BUF_ERROR == -5

\* the longest match of the deflate format
MaxMatch == 258

\* compressBound(sourceLen) of zlib
CompressBound(n) == n + (n \div 4096) + (n \div 16384) + (n \div 33554432) + 13

\* one run as match tokens of at most MaxMatch bytes each
SplitRun(b, n) ==
    [k \in 1..((n + MaxMatch - 1) \div MaxMatch) |->
        <<b, IF k * MaxMatch <= n THEN MaxMatch ELSE n - (k - 1) * MaxMatch>>]

RECURSIVE TokensOf(_, _, _)
TokensOf(s, lo, hi) ==
    IF lo > hi THEN <<>>
    ELSE IF lo = hi THEN SplitRun(s[lo][1], s[lo][2])
    ELSE LET m == (lo + hi) \div 2 IN TokensOf(s, lo, m) \o TokensOf(s, m + 1, hi)

Tokens(s) == TokensOf(s, 1, Len(s))

\* a zlib stream: header, body (stored bytes at level 0, match tokens otherwise), trailer
ZStream(s, level) ==
    [zhdr |-> TRUE, stored |-> (level = 0),
     body |-> IF level = 0 THEN s ELSE Tokens(s), ztrail |-> TRUE]

\* the stream's length in bytes: 2 header, 4 trailer, one per token or 5 + the stored bytes
StreamLen(st) ==
    2 + 4 + (IF st.stored THEN 5 + BLen(st.body) ELSE Len(st.body))

\* the bytes that tokens lo..hi stand for
RECURSIVE MergeOf(_, _, _)
MergeOf(toks, lo, hi) ==
    IF lo > hi THEN <<>>
    ELSE IF lo = hi THEN <<toks[lo]>>
    ELSE LET m == (lo + hi) \div 2 IN Cat(MergeOf(toks, lo, m), MergeOf(toks, m + 1, hi))

Merge(toks) == MergeOf(toks, 1, Len(toks))

Decoded(st) == IF st.stored THEN st.body ELSE Merge(st.body)

\* the levels compress2 accepts: Z_DEFAULT_COMPRESSION and 0..9
ValidLevel(l) == l \in -1..9

\* compress2(dest, &destLen, source, sourceLen, level) into a buffer of the bound
Compress2(s, level) ==
    IF ~ValidLevel(level)
    THEN [zres |-> Z_STREAM_ERROR, stream |-> ZStream(<<>>, 0), len |-> 0]
    ELSE [zres |-> Z_OK, stream |-> ZStream(s, level), len |-> StreamLen(ZStream(s, level))]

\* uncompress(dest, &destLen, source, sourceLen) with *destLen = cap on entry
Uncompress(st, cap) ==
    IF ~st.zhdr THEN [zres |-> Z_DATA_ERROR, data |-> <<>>, len |-> 0]
    ELSE IF BLen(st.body) > cap THEN [zres |-> Z_BUF_ERROR, data |-> <<>>, len |-> 0]
    ELSE IF ~st.ztrail THEN [zres |-> Z_DATA_ERROR, data |-> <<>>, len |-> 0]
    ELSE [zres |-> Z_OK, data |-> Decoded(st), len |-> BLen(st.body)]

\* ------------------------------------------------------------ heap

NULL == 0

Malloc(h, n) == Append(h, [st |-> "live", size |-> n, data |-> <<>>])

\* free(p): free(NULL) does nothing; freeing what is not live is recorded
Free(h, p) ==
    IF p = NULL THEN h
    ELSE [h EXCEPT ![p].st = IF @ = "live" THEN "freed" ELSE "doublefree"]

Live(h) == {p \in 1..Len(h) : h[p].st = "live"}

Hand(h, p) == [h EXCEPT ![p].st = IF @ = "live" THEN "handed" ELSE "doublefree"]

\* realloc(p, n): on success the block (same or moved) keeps its bytes; on failure
\* NULL is returned and the old block is untouched
Realloc(h, p, n, ok) ==
    IF ~ok THEN h
    ELSE IF p = NULL THEN Malloc(h, n)
    ELSE [h EXCEPT ![p].size = n]

\* ------------------------------------------------------------ initial values

NoStream == ZStream(<<>>, 0)

NoArg == [input |-> FALSE, bytes |-> <<>>, stream |-> NoStream, input_len |-> 0,
          output |-> FALSE, output_len |-> FALSE, level |-> 0, command |-> FALSE,
          url |-> FALSE]

NoZ == [cap |-> 0, i |-> 0, out |-> NULL, zres |-> Z_BUF_ERROR, bound |-> 0]

NoAcc == [buf |-> NULL, size |-> 0, cap |-> 0]

NoRet == [val |-> 0, output |-> NULL, output_len |-> 0]

\* the last append: what the accumulator was before it, the chunk's length, whether
\* it had to grow, and the allocation the copy went into
NoLast == [kind |-> "none", grew |-> FALSE, size |-> 0, cap |-> 0, len |-> 0,
           buf |-> NULL, data |-> <<>>, alloc |-> 0]

NoHist == [caps |-> <<>>, outcomes |-> <<>>, cause |-> "none", fed |-> <<>>,
           nchunks |-> 0, nshort |-> 0, last |-> NoLast, orig |-> <<>>,
           chained |-> FALSE]

\* ------------------------------------------------------------ krowno_deflate

DeflateArgsOk(a) == a.input /\ a.input_len # 0 /\ a.output /\ a.output_len

\* lines 361-365: the argument check, compressBound and malloc(bound)
DeflateEnter ==
    /\ fn = "deflate" /\ pc = "start"
    /\ IF ~DeflateArgsOk(arg)
       THEN /\ pc' = "done"
            /\ ret' = [ret EXCEPT !.val = -1]
            /\ hist' = [hist EXCEPT !.cause = "invalid"]
            /\ UNCHANGED <<z, heap>>
       ELSE \E ok \in BOOLEAN :
            IF ok
            THEN /\ heap' = Malloc(heap, CompressBound(arg.input_len))
                 /\ z' = [z EXCEPT !.bound = CompressBound(arg.input_len),
                                   !.out = Len(heap) + 1]
                 /\ pc' = "compress"
                 /\ UNCHANGED <<ret, hist>>
            ELSE /\ pc' = "done"
                 /\ ret' = [ret EXCEPT !.val = -1]
                 /\ hist' = [hist EXCEPT !.cause = "alloc"]
                 /\ z' = [z EXCEPT !.bound = CompressBound(arg.input_len)]
                 /\ UNCHANGED heap
    /\ UNCHANGED <<fn, arg, acc>>

\* lines 367-375: compress2, then free on failure or hand the buffer over
DeflateCompress ==
    /\ fn = "deflate" /\ pc = "compress"
    /\ LET c == Compress2(arg.bytes, arg.level) IN
       IF c.zres # Z_OK
       THEN /\ heap' = Free(heap, z.out)
            /\ ret' = [ret EXCEPT !.val = -1]
            /\ z' = [z EXCEPT !.zres = c.zres]
            /\ hist' = [hist EXCEPT !.cause = "compress"]
       ELSE /\ heap' = Hand([heap EXCEPT ![z.out].data = c.stream], z.out)
            /\ ret' = [val |-> 0, output |-> z.out, output_len |-> c.len]
            /\ z' = [z EXCEPT !.zres = c.zres, !.bound = c.len]
            /\ hist' = [hist EXCEPT !.cause = "ok"]
    /\ pc' = "done"
    /\ UNCHANGED <<fn, arg, acc>>

\* ------------------------------------------------------------ krowno_inflate

InflateAttempts == 6

InflateArgsOk(a) == a.input /\ a.input_len # 0 /\ a.output /\ a.output_len

\* the first guess without its floor of 1024
InitialCapNoFloor(n) == n * 4

\* lines 382-383
InitialCap(n) == IF n * 4 < 1024 THEN 1024 ELSE n * 4

\* a growth by half instead of doubling
NextCapHalf(cap) == cap + cap \div 2

\* line 399
NextCap(cap) == cap * 2

\* the value returned on each path of krowno_inflate (lines 380, 390, 397, 403)
InflateReturn(cause) ==
    CASE cause = "ok" -> 0
      [] cause = "invalid" -> -1
      [] cause = "alloc" -> -1
      [] cause = "corrupt" -> -1
      [] cause = "exhausted" -> -1

\* lines 380-386
InflateEnter ==
    /\ fn = "inflate" /\ pc = "start"
    /\ IF ~InflateArgsOk(arg)
       THEN /\ pc' = "done"
            /\ ret' = [ret EXCEPT !.val = InflateReturn("invalid")]
            /\ hist' = [hist EXCEPT !.cause = "invalid"]
            /\ UNCHANGED z
       ELSE /\ z' = [NoZ EXCEPT !.cap = InitialCap(arg.input_len)]
            /\ pc' = "loop"
            /\ UNCHANGED <<ret, hist>>
    /\ UNCHANGED <<fn, arg, acc, heap>>

\* lines 387-390: the loop test, free(out) and malloc(cap)
InflateAlloc ==
    /\ fn = "inflate" /\ pc = "loop" /\ z.i < InflateAttempts
    /\ \E ok \in BOOLEAN :
       IF ok
       THEN /\ heap' = Malloc(Free(heap, z.out), z.cap)
            /\ z' = [z EXCEPT !.out = Len(heap) + 1]
            /\ hist' = [hist EXCEPT !.caps = Append(@, z.cap)]
            /\ pc' = "try"
            /\ UNCHANGED ret
       ELSE /\ heap' = Free(heap, z.out)
            /\ z' = [z EXCEPT !.out = NULL]
            /\ ret' = [ret EXCEPT !.val = InflateReturn("alloc")]
            /\ hist' = [hist EXCEPT !.cause = "alloc"]
            /\ pc' = "done"
    /\ UNCHANGED <<fn, arg, acc>>

\* lines 392-399: uncompress into the candidate; hand it over, or double cap
InflateTry ==
    /\ fn = "inflate" /\ pc = "try"
    /\ LET u == Uncompress(arg.stream, z.cap) IN
       IF u.zres = Z_OK
       THEN /\ heap' = Hand([heap EXCEPT ![z.out].data = u.data], z.out)
            /\ ret' = [val |-> InflateReturn("ok"), output |-> z.out,
                       output_len |-> u.len]
            /\ z' = [z EXCEPT !.zres = u.zres]
            /\ hist' = [hist EXCEPT !.outcomes = Append(@, u.zres), !.cause = "ok"]
            /\ pc' = "done"
       ELSE /\ z' = [z EXCEPT !.zres = u.zres, !.cap = NextCap(z.cap), !.i = z.i + 1]
            /\ hist' = [hist EXCEPT !.outcomes = Append(@, u.zres)]
            /\ pc' = "loop"
            /\ UNCHANGED <<heap, ret>>
    /\ UNCHANGED <<fn, arg, acc>>

\* lines 402-403: the loop ran out
InflateGiveUp ==
    /\ fn = "inflate" /\ pc = "loop" /\ z.i >= InflateAttempts
    /\ heap' = Free(heap, z.out)
    /\ z' = [z EXCEPT !.out = NULL]
    /\ LET cause == IF z.zres = Z_BUF_ERROR THEN "exhausted" ELSE "corrupt" IN
       /\ ret' = [ret EXCEPT !.val = InflateReturn(cause)]
       /\ hist' = [hist EXCEPT !.cause = cause]
    /\ pc' = "done"
    /\ UNCHANGED <<fn, arg, acc>>

\* the caller of a successful krowno_deflate passes its buffer and length to
\* krowno_inflate (the round trip)
RoundTrip ==
    /\ fn = "deflate" /\ pc = "done" /\ ret.val = 0
    /\ fn' = "inflate"
    /\ pc' = "start"
    /\ arg' = [arg EXCEPT !.stream = heap[ret.output].data,
                          !.input_len = ret.output_len]
    /\ z' = NoZ
    /\ ret' = NoRet
    /\ hist' = [NoHist EXCEPT !.orig = arg.bytes, !.chained = TRUE]
    /\ UNCHANGED <<acc, heap>>

\* ------------------------------------------------------------ inputs of the calls

\* the bytes handed to krowno_deflate
DeflateInputs ==
    { Rep(65, 10),
      << <<65, 1>>, <<0, 1>>, <<66, 1>> >>,
      Rep(0, 1025),
      Rep(0, 32768),
      Rep(0, 32769),
      Rep(0, 40000),
      [k \in 1..300 |-> <<IF k % 2 = 1 THEN 65 ELSE 66, 100>>],
      [k \in 1..300 |-> <<IF k % 2 = 1 THEN 65 ELSE 66, 258>>] }

Levels == {-2, -1, 0, 6, 9, 10}

\* the streams handed to krowno_inflate directly: valid ones, one with a bad
\* header, one whose trailer check fails, and one expanding to 200 times 1024
InflateInputs ==
    { ZStream(Rep(65, 10), 6),
      [ZStream(Rep(65, 10), 6) EXCEPT !.zhdr = FALSE],
      [ZStream(Rep(65, 2000), 6) EXCEPT !.ztrail = FALSE],
      [ZStream(Rep(65, 2000), 0) EXCEPT !.zhdr = FALSE],
      ZStream(Rep(0, 204800), 9),
      ZStream(Rep(66, 5000), 1) }

InitZ ==
    /\ pc = "start"
    /\ z = NoZ /\ acc = NoAcc /\ heap = <<>> /\ ret = NoRet /\ hist = NoHist
    /\ \/ /\ fn = "deflate"
          /\ \E b \in DeflateInputs, l \in Levels, n \in BOOLEAN, e \in BOOLEAN,
                o \in BOOLEAN, ol \in BOOLEAN :
                arg = [NoArg EXCEPT !.input = n, !.bytes = b,
                                    !.input_len = IF e THEN 0 ELSE BLen(b),
                                    !.output = o, !.output_len = ol, !.level = l]
       \/ /\ fn = "inflate"
          /\ \E s \in InflateInputs, n \in BOOLEAN, e \in BOOLEAN,
                o \in BOOLEAN, ol \in BOOLEAN :
                arg = [NoArg EXCEPT !.input = n, !.stream = s,
                                    !.input_len = IF e THEN 0 ELSE StreamLen(s),
                                    !.output = o, !.output_len = ol]

NextZ ==
    \/ DeflateEnter
    \/ DeflateCompress
    \/ RoundTrip
    \/ InflateEnter
    \/ InflateAlloc
    \/ InflateTry
    \/ InflateGiveUp

SpecZ == InitZ /\ [][NextZ]_vars


\* ------------------------------------------------------------ krowno_execute_command

\* line 256
InitialCapacity == 1024

\* sizeof(buffer) - 1: the most bytes one fgets call delivers (lines 264-265)
FgetsMax == 255

\* the bytes of a chunk up to its first zero byte: what strlen counts and strcpy copies
CStr(c) ==
    LET nul == {k \in 1..Len(c) : c[k][1] = 0} IN
    IF nul = {} THEN c
    ELSE SubSeq(c, 1, (CHOOSE k \in nul : \A j \in nul : k <= j) - 1)

Strlen(c) == BLen(CStr(c))

\* the growth test with > for >=
NeedsGrowLate(size, len, cap) == size + len > cap

\* line 267
NeedsGrow(size, len, cap) == size + len >= cap

\* line 268
GrowCapacity(cap) == cap * 2

\* what fgets leaves in buffer: a full buffer, a short line, a line holding a zero
\* byte, a line starting with one
ExecChunks ==
    { Rep(65, FgetsMax),
      << <<65, 3>>, <<10, 1>> >>,
      << <<65, 1>>, <<0, 1>>, <<66, 1>>, <<10, 1>> >>,
      << <<0, 1>>, <<10, 1>> >> }

MaxChunks == 10
MaxShort == 3

\* lines 249-262: the command check, popen and the first malloc
ExecEnter ==
    /\ fn = "exec" /\ pc = "start"
    /\ \E popened \in BOOLEAN, ok \in BOOLEAN :
       IF ~arg.command \/ ~popened \/ ~ok
       THEN /\ (~arg.command => popened /\ ok)
            /\ (~popened => ok)
            /\ ret' = [ret EXCEPT !.val = -1]
            /\ hist' = [hist EXCEPT !.cause =
                            IF ~arg.command THEN "invalid"
                            ELSE IF ~popened THEN "popen" ELSE "alloc"]
            /\ pc' = "done"
            /\ UNCHANGED <<acc, heap>>
       ELSE /\ heap' = Malloc(heap, InitialCapacity)
            /\ acc' = [buf |-> Len(heap) + 1, size |-> 0, cap |-> InitialCapacity]
            /\ pc' = "read"
            /\ UNCHANGED <<ret, hist>>
    /\ UNCHANGED <<fn, arg, z>>

\* lines 265-279: one iteration of the read loop, fgets having delivered chunk c
ExecRead ==
    /\ fn = "exec" /\ pc = "read"
    /\ hist.nchunks < MaxChunks
    /\ \E c \in ExecChunks, ok \in BOOLEAN :
       LET len == Strlen(c)
           grow == NeedsGrow(acc.size, len, acc.cap)
           cap2 == IF grow THEN GrowCapacity(acc.cap) ELSE acc.cap
           short == IF BLen(c) < FgetsMax THEN 1 ELSE 0
           before == [NoLast EXCEPT !.grew = grow, !.size = acc.size, !.cap = acc.cap,
                                    !.len = len, !.buf = acc.buf,
                                    !.data = heap[acc.buf].data]
       IN
       /\ hist.nshort + short <= MaxShort
       /\ (~grow => ok)
       /\ IF grow /\ ~ok
          THEN /\ heap' = Free(heap, acc.buf)
               /\ acc' = [acc EXCEPT !.cap = cap2]
               /\ ret' = [ret EXCEPT !.val = -1]
               /\ hist' = [hist EXCEPT !.cause = "alloc",
                                       !.last = [before EXCEPT !.kind = "failed",
                                                               !.alloc = heap[acc.buf].size]]
               /\ pc' = "done"
          ELSE LET h2 == IF grow THEN Realloc(heap, acc.buf, cap2, TRUE) ELSE heap IN
               /\ heap' = [h2 EXCEPT ![acc.buf].data = Cat(@, CStr(c))]
               /\ acc' = [acc EXCEPT !.cap = cap2, !.size = acc.size + len]
               /\ hist' = [hist EXCEPT !.fed = Cat(@, c),
                                       !.nchunks = @ + 1,
                                       !.nshort = @ + short,
                                       !.last = [before EXCEPT !.kind = "copied",
                                                               !.alloc = h2[acc.buf].size]]
               /\ pc' = "read"
               /\ UNCHANGED ret
    /\ UNCHANGED <<fn, arg, z>>

\* lines 281-286: fgets returned NULL; pclose, store the outputs, return the status
ExecEof ==
    /\ fn = "exec" /\ pc = "read"
    /\ \E status \in {0, 1} :
       /\ ret' = [val |-> status,
                  output |-> IF arg.output THEN acc.buf ELSE NULL,
                  output_len |-> IF arg.output_len THEN acc.size ELSE 0]
       /\ hist' = [hist EXCEPT !.cause = "ok"]
    /\ heap' = IF arg.output THEN Hand(heap, acc.buf) ELSE heap
    /\ pc' = "done"
    /\ UNCHANGED <<fn, arg, z, acc>>

\* ------------------------------------------------------------ krowno_http_get

\* line 122
RealSize(size, nmemb) == size * nmemb

\* line 123: the size asked of realloc
CallbackAlloc(size, realsize) == size + realsize + 1

\* the blocks the transport delivers: none, one byte, bytes around a zero byte, a big one
CurlChunks ==
    { <<>>,
      Rep(65, 1),
      << <<65, 1>>, <<0, 1>>, <<66, 1>> >>,
      Rep(66, 300) }

MaxWrites == 5

\* lines 141-154: the url check and the zeroed response (data NULL, size 0)
HttpGet ==
    /\ fn = "curl" /\ pc = "start"
    /\ \E ok \in BOOLEAN :
       IF ~arg.url \/ ~ok
       THEN /\ (~arg.url => ok)
            /\ hist' = [hist EXCEPT !.cause = IF ~arg.url THEN "invalid" ELSE "alloc"]
            /\ pc' = "done"
       ELSE /\ pc' = "transfer"
            /\ UNCHANGED hist
    /\ acc' = NoAcc
    /\ UNCHANGED <<fn, arg, z, heap, ret>>

\* lines 121-136: krowno_curl_write_callback on one block.  Returning 0 for a block
\* of realsize > 0 aborts the transfer; for an empty block 0 equals realsize
CurlWrite ==
    /\ fn = "curl" /\ pc = "transfer"
    /\ hist.nchunks < MaxWrites
    /\ \E c \in CurlChunks, ok \in BOOLEAN :
       LET realsize == RealSize(1, BLen(c))
           n == CallbackAlloc(acc.size, realsize)
           h2 == Realloc(heap, acc.buf, n, ok)
           ptr == IF acc.buf = NULL THEN Len(heap) + 1 ELSE acc.buf
           before == [NoLast EXCEPT !.grew = (acc.cap < n), !.size = acc.size,
                                    !.cap = acc.cap, !.len = realsize, !.buf = acc.buf,
                                    !.data = IF acc.buf = NULL THEN <<>>
                                             ELSE heap[acc.buf].data,
                                    !.alloc = IF ok THEN n ELSE acc.cap]
       IN
       IF ~ok
       THEN /\ hist' = [hist EXCEPT !.nchunks = @ + 1,
                                    !.last = [before EXCEPT !.kind = "failed"]]
            /\ pc' = IF realsize = 0 THEN "transfer" ELSE "aborted"
            /\ UNCHANGED <<acc, heap>>
       ELSE /\ heap' = [h2 EXCEPT ![ptr].data = Cat(@, c)]
            /\ acc' = [buf |-> ptr, size |-> acc.size + realsize, cap |-> n]
            /\ hist' = [hist EXCEPT !.fed = Cat(@, c),
                                    !.nchunks = @ + 1,
                                    !.last = [before EXCEPT !.kind = "copied"]]
            /\ pc' = "transfer"
    /\ UNCHANGED <<fn, arg, z, ret>>

\* lines 165-174: curl_easy_perform is over; the response goes to the caller
HttpReturn ==
    /\ fn = "curl" /\ pc \in {"transfer", "aborted"}
    /\ ret' = [val |-> IF pc = "aborted" THEN 0 ELSE 200,
               output |-> acc.buf, output_len |-> acc.size]
    /\ heap' = IF acc.buf = NULL THEN heap ELSE Hand(heap, acc.buf)
    /\ hist' = [hist EXCEPT !.cause = IF pc = "aborted" THEN "alloc" ELSE "ok"]
    /\ pc' = "done"
    /\ UNCHANGED <<fn, arg, z, acc>>

InitAcc ==
    /\ pc = "start"
    /\ z = NoZ /\ acc = NoAcc /\ heap = <<>> /\ ret = NoRet /\ hist = NoHist
    /\ \/ /\ fn = "exec"
          /\ \E c \in BOOLEAN, o \in BOOLEAN, ol \in BOOLEAN :
                arg = [NoArg EXCEPT !.command = c, !.output = o, !.output_len = ol]
       \/ /\ fn = "curl"
          /\ \E u \in BOOLEAN : arg = [NoArg EXCEPT !.url = u]

NextAcc ==
    \/ ExecEnter
    \/ ExecRead
    \/ ExecEof
    \/ HttpGet
    \/ CurlWrite
    \/ HttpReturn

SpecAcc == InitAcc /\ [][NextAcc]_vars


\* ------------------------------------------------------------ properties of expand

FirstAttemptHardError ==
    /\ Len(hist.outcomes) >= 1
    /\ hist.outcomes[1] \notin {Z_OK, Z_BUF_ERROR}

AllTooSmall == \A k \in 1..Len(hist.outcomes) : hist.outcomes[k] = Z_BUF_ERROR

\* the buffers krowno_inflate itself allocated (a round trip's first buffer is
\* krowno_deflate's)
InflateBuffers == {p \in 1..Len(heap) : ~(hist.chained /\ p = 1)}

\* C1: when the first uncompress reports a failure other than Z_BUF_ERROR, the call
\* ends on that attempt: one attempt, one buffer, the capacity never doubled.
C1_FailsOnFirstAttempt ==
    (fn = "inflate" /\ FirstAttemptHardError) =>
        /\ Len(hist.outcomes) = 1
        /\ Len(hist.caps) = 1
        /\ z.cap = hist.caps[1]
        /\ pc = "done"

\* C2: when every attempt ends in Z_BUF_ERROR, the capacities tried are
\* max(4n, 1024) * 2^i for i = 0..5, exactly six attempts are made before the call
\* fails without a buffer, and nothing larger than max(4n, 1024) * 2^5 is allocated.
C2_SixAttempts ==
    (fn = "inflate" /\ InflateArgsOk(arg) /\ AllTooSmall) =>
        LET m == Max(4 * arg.input_len, 1024) IN
        /\ Len(hist.caps) <= 6
        /\ \A k \in 1..Len(hist.caps) : hist.caps[k] = m * 2 ^ (k - 1)
        /\ \A p \in InflateBuffers : heap[p].size <= m * 2 ^ 5
        /\ (pc = "done" /\ hist.cause # "alloc") =>
               /\ Len(hist.outcomes) = 6
               /\ Len(hist.caps) = 6
               /\ ret.val # 0
               /\ ret.output = NULL

\* six attempts, all too small, were made on an input longer than 256 bytes
C2_Witness ==
    /\ fn = "inflate" /\ pc = "done" /\ hist.cause = "exhausted"
    /\ Len(hist.outcomes) = 6 /\ AllTooSmall
    /\ arg.input_len > 256
    /\ hist.caps[6] = 4 * arg.input_len * 32

RoundTripDone ==
    fn = "inflate" /\ hist.chained /\ pc = "done" /\ hist.cause # "alloc"

RoundTripOk ==
    /\ ret.val = 0
    /\ ret.output # NULL
    /\ heap[ret.output].data = hist.orig
    /\ ret.output_len = BLen(hist.orig)

\* C3 as stated: expand(compress(b, L)) succeeds and returns exactly b, for every b
\* (no allocation failing).
C3_RoundTripAlways == RoundTripDone => RoundTripOk

\* C3 amended: expand(compress(b, L)) returns exactly b when len(b) is at most
\* max(4 * len(compressed), 1024) * 2^5, and fails after six attempts, returning no
\* buffer, when len(b) is larger (no allocation failing).
C3_RoundTripWithinCeiling ==
    RoundTripDone =>
        IF BLen(hist.orig) <= Max(4 * arg.input_len, 1024) * 32
        THEN RoundTripOk
        ELSE ret.val = -1 /\ ret.output = NULL /\ Len(hist.outcomes) = 6

\* a round trip that needed every one of the six attempts and returned b
C3_Witness ==
    /\ RoundTripDone /\ RoundTripOk
    /\ Len(hist.caps) = 6
    /\ BLen(hist.orig) > hist.caps[1]

\* C6: the value returned for each cause of failure differs from the value returned
\* for every other cause and from success.
C6_DistinctErrors ==
    (fn = "inflate" /\ pc = "done") =>
        \A c \in {"ok", "invalid", "alloc", "corrupt", "exhausted"} \ {hist.cause} :
            InflateReturn(c) # ret.val

InvalidArgument ==
    \/ fn = "deflate" /\ (~arg.input \/ arg.input_len = 0 \/ ~ValidLevel(arg.level))
    \/ fn = "inflate" /\ (~arg.input \/ arg.input_len = 0)

\* C7: a call with a null or empty input, or a level out of range, is rejected
\* without any buffer ever being allocated.
C7_RejectedBeforeAllocation ==
    InvalidArgument => heap = <<>> /\ (pc = "done" => ret.val # 0)

\* ------------------------------------------------------------ properties of the accumulator

Handed == fn \in {"exec", "curl"} /\ pc = "done" /\ ret.output # NULL

\* C4: the buffer handed to the caller holds the concatenation of the chunks
\* delivered and the reported length is the sum of their lengths.
C4_Fidelity ==
    (Handed /\ (fn = "exec" => arg.output_len)) =>
        /\ heap[ret.output].data = hist.fed
        /\ ret.output_len = BLen(hist.fed)

\* C5: after an append that failed for lack of memory, the accumulator's buffer,
\* contents, length and capacity are what they were before it.
C5_FailedAppendKeepsContents ==
    (fn \in {"exec", "curl"} /\ hist.last.kind = "failed") =>
        /\ acc = [buf |-> hist.last.buf, size |-> hist.last.size, cap |-> hist.last.cap]
        /\ acc.buf # NULL =>
               /\ heap[acc.buf].st \in {"live", "handed"}
               /\ heap[acc.buf].data = hist.last.data
               /\ heap[acc.buf].size = hist.last.alloc

\* C8: at every return each buffer the call allocated has been freed once or handed
\* over through the output pointer, and krowno_inflate holds at most one live buffer.
C8_FreedOrHanded ==
    /\ fn = "inflate" => Cardinality(Live(heap)) <= 1
    /\ pc = "done" =>
           \A p \in 1..Len(heap) :
               /\ heap[p].st \in {"freed", "handed"}
               /\ heap[p].st = "handed" => (p = ret.output \/ (hist.chained /\ p = 1))

\* C9: an append never lowers the capacity, and one that finds the capacity
\* insufficient makes it the larger of twice the old one and the size needed.
C9_GrowthPolicy ==
    (fn \in {"exec", "curl"} /\ hist.last.kind = "copied") =>
        /\ acc.cap >= hist.last.cap
        /\ hist.last.grew =>
               acc.cap = Max(2 * hist.last.cap, hist.last.size + hist.last.len + 1)

\* C10: in krowno_execute_command every chunk has 0..255 bytes, its copy with the
\* terminating zero byte ends inside the allocation, the capacity is the old one or
\* its double, and the length stays below the capacity.
C10_CopyInBounds ==
    fn = "exec" =>
        /\ (pc \in {"read", "done"} /\ acc.buf # NULL) => acc.size < acc.cap
        /\ hist.last.kind = "copied" =>
               /\ hist.last.len \in 0..255
               /\ hist.last.size + hist.last.len + 1 <= acc.cap
               /\ hist.last.size + hist.last.len + 1 <= hist.last.alloc
               /\ acc.cap \in {hist.last.cap, 2 * hist.last.cap}
               /\ acc.cap >= 1024

\* the second doubling, taken by a chunk that ends exactly at the old capacity
C10_Witness ==
    /\ fn = "exec" /\ hist.last.kind = "copied" /\ hist.last.grew
    /\ hist.last.cap = 2048
    /\ hist.last.size + hist.last.len = hist.last.cap

====
